---- MODULE Spec2Model ----
(***************************************************************************)
(* The Erc20 ink! contract of src/lib.rs as a state machine.               *)
(*                                                                         *)
(* The storage struct (name, symbol, total_supply, balances, allowances)   *)
(* is the state; every #[ink(message)] that takes &mut self is one action. *)
(* A message is modelled as the method body runs it: storage writes made   *)
(* before a `return Err(..)` or before a panic stay written, because the   *)
(* method does not undo them.                                              *)
(*                                                                         *)
(* Balance is u128 in the contract; here it is Width bits wide.  The       *)
(* contract adds with the plain `+` operator, which panics when the crate  *)
(* is built with overflow checks and wraps modulo 2^Width when it is not;  *)
(* overflow_checks records which of the two builds is running.             *)
(***************************************************************************)
EXTENDS Integers, Sequences, FiniteSets, TLC

\* Bit width of Balance in the model (u128 in the contract).
Width == 2

\* Number of messages executed after the constructor.
MaxSteps == 2

Modulus == 2 ^ Width

MaxBalance == Modulus - 1

Balance == 0 .. MaxBalance

\* The amounts the calls are tried with: nothing, one unit, the largest Balance.
ArgValues == {0, 1, MaxBalance}

\* The callers the tests use (default_accounts: alice, bob, charlie).
Accounts == {"alice", "bob", "charlie"}

\* The accounts that instantiate the contract.
Deployers == {"alice", "bob"}

\* Option::None of an event's from / to.
None == "None"

VARIABLES
    name,             \* Erc20.name
    symbol,           \* Erc20.symbol
    total_supply,     \* Erc20.total_supply
    balances,         \* Erc20.balances: Mapping<AccountId, Balance>
    allowances,       \* Erc20.allowances: Mapping<(AccountId, AccountId), Balance>
    overflow_checks,  \* TRUE: `+` panics on overflow; FALSE: it wraps
    emitted,          \* the events the last call handed to emit_event, in order
    last,             \* the last call: message, caller, arguments, result
    pre,              \* the storage as it was when the last call started
    steps,            \* messages executed since the constructor
    initial_supply,   \* the total_supply argument the constructor was given
    granted,          \* per (owner, spender): values approved plus values increased
    spent             \* per (owner, spender): values moved by successful transfer_from

vars == <<name, symbol, total_supply, balances, allowances, overflow_checks,
          emitted, last, pre, steps, initial_supply, granted, spent>>

----------------------------------------------------------------------------
(* ink::storage::Mapping: a partial map; get of an absent key is None.     *)

\* Mapping::insert(key, &value)
Insert(m, k, v) == [x \in (DOMAIN m) \cup {k} |-> IF x = k THEN v ELSE m[x]]

\* Mapping::get(key).unwrap_or_default()
GetOrDefault(m, k) == IF k \in DOMAIN m THEN m[k] ELSE 0

\* Mapping::new() / Default::default()
EmptyMapping == [x \in {} |-> 0]

\* Balance + Balance: the sum as a build without overflow checks stores it,
\* and whether the sum leaves the Balance width (where a build with overflow
\* checks panics).  Balance - Balance is only used under a guard.
WrappingAdd(a, b) == (a + b) % Modulus

Overflows(a, b) == a + b > MaxBalance

----------------------------------------------------------------------------
(* Events *)

Transfer(from, to, value) ==
    [event |-> "Transfer", from |-> from, to |-> to, value |-> value]

Approval(owner, spender, value) ==
    [event |-> "Approval", owner |-> owner, spender |-> spender, value |-> value]

----------------------------------------------------------------------------
(* Queries *)

balance_of(owner) == GetOrDefault(balances, owner)

allowance(owner, spender) == GetOrDefault(allowances, <<owner, spender>>)

\* The same two reads against a given snapshot of the storage.
BalanceIn(s, owner) == GetOrDefault(s.balances, owner)

AllowanceIn(s, owner, spender) == GetOrDefault(s.allowances, <<owner, spender>>)

Storage ==
    [total_supply |-> total_supply, balances |-> balances, allowances |-> allowances]

SumOver(m) ==
    LET RECURSIVE Sum(_)
        Sum(S) == IF S = {} THEN 0
                  ELSE LET x == CHOOSE y \in S : TRUE IN m[x] + Sum(S \ {x})
    IN Sum(DOMAIN m)

----------------------------------------------------------------------------
(* Constructor *)

\* new without the insert of line 49: nobody is credited.
new_uncredited(caller, n, sym, supply) ==
    /\ name = n
    /\ symbol = sym
    /\ total_supply = supply
    /\ balances = EmptyMapping
    /\ allowances = EmptyMapping
    /\ emitted = <<Transfer(None, caller, supply)>>
    /\ last = [op |-> "new", caller |-> caller, value |-> supply, result |-> "Ok"]
    /\ pre = [total_supply |-> 0, balances |-> EmptyMapping, allowances |-> EmptyMapping]
    /\ steps = 0
    /\ initial_supply = supply
    /\ granted = EmptyMapping
    /\ spent = EmptyMapping

new(caller, n, sym, supply) ==
    /\ name = n
    /\ symbol = sym
    /\ total_supply = supply
    /\ balances = Insert(EmptyMapping, caller, supply)
    /\ allowances = EmptyMapping
    /\ emitted = <<Transfer(None, caller, supply)>>
    /\ last = [op |-> "new", caller |-> caller, value |-> supply, result |-> "Ok"]
    /\ pre = [total_supply |-> 0, balances |-> EmptyMapping, allowances |-> EmptyMapping]
    /\ steps = 0
    /\ initial_supply = supply
    /\ granted = EmptyMapping
    /\ spent = EmptyMapping

Init ==
    /\ overflow_checks \in BOOLEAN
    /\ \E caller \in Deployers, supply \in ArgValues :
          new(caller, "Ink Test Token", "ITT", supply)

----------------------------------------------------------------------------
(* The internal transfer primitive, as a function of the balances it is    *)
(* given: the result, the balances it leaves and the events it emits.      *)

\* _transfer whose event names the two parties the wrong way round.
_transfer_swapped_event(bal, from, to, value) ==
    LET balance_from == GetOrDefault(bal, from)
        balance_to   == GetOrDefault(bal, to)
        debited      == Insert(bal, from, balance_from - value)
    IN  IF value > balance_from
        THEN [result |-> "InsufficientBalance", balances |-> bal, events |-> <<>>]
        ELSE IF Overflows(balance_to, value) /\ overflow_checks
        THEN [result |-> "Panic", balances |-> debited, events |-> <<>>]
        ELSE [result   |-> "Ok",
              balances |-> Insert(debited, to, WrappingAdd(balance_to, value)),
              events   |-> <<Transfer(to, from, value)>>]

_transfer(bal, from, to, value) ==
    LET balance_from == GetOrDefault(bal, from)
        balance_to   == GetOrDefault(bal, to)
        debited      == Insert(bal, from, balance_from - value)
    IN  IF value > balance_from
        THEN [result |-> "InsufficientBalance", balances |-> bal, events |-> <<>>]
        ELSE IF Overflows(balance_to, value) /\ overflow_checks
        THEN [result |-> "Panic", balances |-> debited, events |-> <<>>]
        ELSE [result   |-> "Ok",
              balances |-> Insert(debited, to, WrappingAdd(balance_to, value)),
              events   |-> <<Transfer(from, to, value)>>]

----------------------------------------------------------------------------
(* Messages *)

Called == /\ steps' = steps + 1
          /\ pre' = Storage
          /\ UNCHANGED <<name, symbol, overflow_checks, initial_supply>>

\* The running totals of what owners granted and what spenders moved.
NoTally == UNCHANGED <<granted, spent>>

Bump(m, k, value) ==
    IF value = 0 THEN m ELSE Insert(m, k, GetOrDefault(m, k) + value)

Grant(owner, spender, value) ==
    /\ granted' = Bump(granted, <<owner, spender>>, value)
    /\ UNCHANGED spent

Spend(owner, spender, value) ==
    /\ spent' = Bump(spent, <<owner, spender>>, value)
    /\ UNCHANGED granted

\* transfer that also clears the caller's allowance to itself.
transfer_clearing(caller, to, value) ==
    LET from == caller
        r    == _transfer(balances, from, to, value)
    IN  /\ Called
        /\ balances' = r.balances
        /\ allowances' = Insert(allowances, <<from, from>>, 0)
        /\ emitted' = r.events
        /\ last' = [op |-> "transfer", caller |-> caller, from |-> from, to |-> to,
                    value |-> value, result |-> r.result]
        /\ NoTally
        /\ UNCHANGED total_supply

\* transfer that recomputes total_supply from the balances it leaves.
transfer_resupplied(caller, to, value) ==
    LET from == caller
        r    == _transfer(balances, from, to, value)
    IN  /\ Called
        /\ balances' = r.balances
        /\ total_supply' = SumOver(r.balances) % Modulus
        /\ emitted' = r.events
        /\ last' = [op |-> "transfer", caller |-> caller, from |-> from, to |-> to,
                    value |-> value, result |-> r.result]
        /\ NoTally
        /\ UNCHANGED allowances

transfer(caller, to, value) ==
    LET from == caller
        r    == _transfer(balances, from, to, value)
    IN  /\ Called
        /\ balances' = r.balances
        /\ emitted' = r.events
        /\ last' = [op |-> "transfer", caller |-> caller, from |-> from, to |-> to,
                    value |-> value, result |-> r.result]
        /\ NoTally
        /\ UNCHANGED <<total_supply, allowances>>

\* transfer_from that looks the allowance up under the key (spender, from).
transfer_from_wrong_key(caller, from, to, value) ==
    LET spender    == caller
        allowance_ == GetOrDefault(allowances, <<spender, from>>)
        r          == _transfer(balances, from, to, value)
        Call(res)  == [op |-> "transfer_from", caller |-> caller, from |-> from,
                       to |-> to, value |-> value, result |-> res]
    IN  /\ Called
        /\ IF allowance_ < value
           THEN /\ last' = Call("InsufficientAllowance")
                /\ emitted' = <<>>
                /\ NoTally
                /\ UNCHANGED <<total_supply, balances, allowances>>
           ELSE /\ allowances' = Insert(allowances, <<spender, from>>, allowance_ - value)
                /\ balances' = r.balances
                /\ emitted' = r.events
                /\ last' = Call(r.result)
                /\ IF r.result = "Ok" THEN Spend(from, spender, value) ELSE NoTally
                /\ UNCHANGED total_supply

\* transfer_from that writes the spent allowance under the key (spender, from).
transfer_from_swapped(caller, from, to, value) ==
    LET spender    == caller
        allowance_ == GetOrDefault(allowances, <<from, spender>>)
        r          == _transfer(balances, from, to, value)
        Call(res)  == [op |-> "transfer_from", caller |-> caller, from |-> from,
                       to |-> to, value |-> value, result |-> res]
    IN  /\ Called
        /\ IF allowance_ < value
           THEN /\ last' = Call("InsufficientAllowance")
                /\ emitted' = <<>>
                /\ NoTally
                /\ UNCHANGED <<total_supply, balances, allowances>>
           ELSE /\ allowances' = Insert(allowances, <<spender, from>>, allowance_ - value)
                /\ balances' = r.balances
                /\ emitted' = r.events
                /\ last' = Call(r.result)
                /\ IF r.result = "Ok" THEN Spend(from, spender, value) ELSE NoTally
                /\ UNCHANGED total_supply

transfer_from(caller, from, to, value) ==
    LET spender    == caller
        allowance_ == GetOrDefault(allowances, <<from, spender>>)
        r          == _transfer(balances, from, to, value)
        Call(res)  == [op |-> "transfer_from", caller |-> caller, from |-> from,
                       to |-> to, value |-> value, result |-> res]
    IN  /\ Called
        /\ IF allowance_ < value
           THEN /\ last' = Call("InsufficientAllowance")
                /\ emitted' = <<>>
                /\ NoTally
                /\ UNCHANGED <<total_supply, balances, allowances>>
           ELSE /\ allowances' = Insert(allowances, <<from, spender>>, allowance_ - value)
                /\ balances' = r.balances
                /\ emitted' = r.events
                /\ last' = Call(r.result)
                /\ IF r.result = "Ok" THEN Spend(from, spender, value) ELSE NoTally
                /\ UNCHANGED total_supply

\* approve that takes what the spender already spent off the new allowance.
approve_net(caller, spender, value) ==
    LET owner   == caller
        already == GetOrDefault(spent, <<owner, spender>>)
        net     == IF value > already THEN value - already ELSE 0
    IN  /\ Called
        /\ allowances' = Insert(allowances, <<owner, spender>>, net)
        /\ emitted' = <<Approval(owner, spender, value)>>
        /\ last' = [op |-> "approve", caller |-> caller, owner |-> owner,
                    spender |-> spender, value |-> value, result |-> "Ok"]
        /\ Grant(owner, spender, value)
        /\ UNCHANGED <<total_supply, balances>>

\* approve that adds value to the allowance instead of replacing it.
approve_additive(caller, spender, value) ==
    LET owner      == caller
        allowance_ == GetOrDefault(allowances, <<owner, spender>>)
    IN  /\ Called
        /\ allowances' = Insert(allowances, <<owner, spender>>,
                                WrappingAdd(allowance_, value))
        /\ emitted' = <<Approval(owner, spender, value)>>
        /\ last' = [op |-> "approve", caller |-> caller, owner |-> owner,
                    spender |-> spender, value |-> value, result |-> "Ok"]
        /\ Grant(owner, spender, value)
        /\ UNCHANGED <<total_supply, balances>>

approve(caller, spender, value) ==
    LET owner == caller
    IN  /\ Called
        /\ allowances' = Insert(allowances, <<owner, spender>>, value)
        /\ emitted' = <<Approval(owner, spender, value)>>
        /\ last' = [op |-> "approve", caller |-> caller, owner |-> owner,
                    spender |-> spender, value |-> value, result |-> "Ok"]
        /\ Grant(owner, spender, value)
        /\ UNCHANGED <<total_supply, balances>>

\* increase_allowance that emits an Approval with the new allowance.
increase_allowance_announcing(caller, spender, value) ==
    LET owner      == caller
        allowance_ == GetOrDefault(allowances, <<owner, spender>>)
        Call(res)  == [op |-> "increase_allowance", caller |-> caller, owner |-> owner,
                       spender |-> spender, value |-> value, result |-> res]
    IN  /\ Called
        /\ UNCHANGED <<total_supply, balances>>
        /\ IF Overflows(allowance_, value) /\ overflow_checks
           THEN /\ last' = Call("Panic")
                /\ emitted' = <<>>
                /\ NoTally
                /\ UNCHANGED allowances
           ELSE /\ allowances' = Insert(allowances, <<owner, spender>>,
                                        WrappingAdd(allowance_, value))
                /\ emitted' = <<Approval(owner, spender, WrappingAdd(allowance_, value))>>
                /\ last' = Call("Ok")
                /\ Grant(owner, spender, value)

increase_allowance(caller, spender, value) ==
    LET owner      == caller
        allowance_ == GetOrDefault(allowances, <<owner, spender>>)
        Call(res)  == [op |-> "increase_allowance", caller |-> caller, owner |-> owner,
                       spender |-> spender, value |-> value, result |-> res]
    IN  /\ Called
        /\ emitted' = <<>>
        /\ UNCHANGED <<total_supply, balances>>
        /\ IF Overflows(allowance_, value) /\ overflow_checks
           THEN /\ last' = Call("Panic")
                /\ NoTally
                /\ UNCHANGED allowances
           ELSE /\ allowances' = Insert(allowances, <<owner, spender>>,
                                        WrappingAdd(allowance_, value))
                /\ last' = Call("Ok")
                /\ Grant(owner, spender, value)

\* decrease_allowance whose guard is `allowance <= value`.
decrease_allowance_strict(caller, spender, value) ==
    LET owner      == caller
        allowance_ == GetOrDefault(allowances, <<owner, spender>>)
        Call(res)  == [op |-> "decrease_allowance", caller |-> caller, owner |-> owner,
                       spender |-> spender, value |-> value, result |-> res]
    IN  /\ Called
        /\ emitted' = <<>>
        /\ UNCHANGED <<total_supply, balances>>
        /\ IF allowance_ <= value
           THEN /\ last' = Call("InsufficientAllowance")
                /\ UNCHANGED allowances
           ELSE /\ allowances' = Insert(allowances, <<owner, spender>>, allowance_ - value)
                /\ last' = Call("Ok")
        /\ NoTally

decrease_allowance(caller, spender, value) ==
    LET owner      == caller
        allowance_ == GetOrDefault(allowances, <<owner, spender>>)
        Call(res)  == [op |-> "decrease_allowance", caller |-> caller, owner |-> owner,
                       spender |-> spender, value |-> value, result |-> res]
    IN  /\ Called
        /\ emitted' = <<>>
        /\ UNCHANGED <<total_supply, balances>>
        /\ IF allowance_ < value
           THEN /\ last' = Call("InsufficientAllowance")
                /\ UNCHANGED allowances
           ELSE /\ allowances' = Insert(allowances, <<owner, spender>>, allowance_ - value)
                /\ last' = Call("Ok")
        /\ NoTally

Message ==
    \/ \E caller \in Accounts, to \in Accounts, value \in ArgValues :
          transfer(caller, to, value)
    \/ \E caller \in Accounts, from \in Accounts, to \in Accounts, value \in ArgValues :
          transfer_from(caller, from, to, value)
    \/ \E caller \in Accounts, spender \in Accounts, value \in ArgValues :
          approve(caller, spender, value)
    \/ \E caller \in Accounts, spender \in Accounts, value \in ArgValues :
          increase_allowance(caller, spender, value)
    \/ \E caller \in Accounts, spender \in Accounts, value \in ArgValues :
          decrease_allowance(caller, spender, value)

Next == steps < MaxSteps /\ Message

Spec == Init /\ [][Next]_vars

----------------------------------------------------------------------------
(* The same contract driven further, one unit at a time: long enough for a  *)
(* balance to be split, inflated, approved and spent.                       *)

DeepSteps == 4

DeepValues == {1}

DeepMessage ==
    \/ \E caller \in Accounts, to \in Accounts, value \in DeepValues :
          transfer(caller, to, value)
    \/ \E caller \in Accounts, from \in Accounts, to \in Accounts, value \in DeepValues :
          transfer_from(caller, from, to, value)
    \/ \E caller \in Accounts, spender \in Accounts, value \in DeepValues :
          approve(caller, spender, value)
    \/ \E caller \in Accounts, spender \in Accounts, value \in DeepValues :
          increase_allowance(caller, spender, value)
    \/ \E caller \in Accounts, spender \in Accounts, value \in DeepValues :
          decrease_allowance(caller, spender, value)

DeepNext == steps < DeepSteps /\ DeepMessage

SpecDeep == Init /\ [][DeepNext]_vars

----------------------------------------------------------------------------
(* The two internal primitives.  No message calls them; they are public    *)
(* methods of the struct, applied here to the storage the messages leave.  *)

_mint(to, value) ==
    LET balance_to == balance_of(to)
        credited   == Insert(balances, to, WrappingAdd(balance_to, value))
        Call(res)  == [op |-> "_mint", to |-> to, value |-> value, result |-> res]
    IN  /\ Called
        /\ NoTally
        /\ UNCHANGED allowances
        /\ IF Overflows(balance_to, value) /\ overflow_checks
           THEN /\ last' = Call("Panic")
                /\ emitted' = <<>>
                /\ UNCHANGED <<balances, total_supply>>
           ELSE IF Overflows(total_supply, value) /\ overflow_checks
           THEN /\ balances' = credited
                /\ last' = Call("Panic")
                /\ emitted' = <<>>
                /\ UNCHANGED total_supply
           ELSE /\ balances' = credited
                /\ total_supply' = WrappingAdd(total_supply, value)
                /\ emitted' = <<Transfer(None, to, value)>>
                /\ last' = Call("Ok")

_burn(from, value) ==
    LET balance_from == balance_of(from)
        debited      == Insert(balances, from, balance_from - value)
        Call(res)    == [op |-> "_burn", from |-> from, value |-> value, result |-> res]
    IN  /\ Called
        /\ NoTally
        /\ UNCHANGED allowances
        /\ IF value > balance_from
           THEN /\ last' = Call("InsufficientBalance")
                /\ emitted' = <<>>
                /\ UNCHANGED <<balances, total_supply>>
           ELSE IF value > total_supply /\ overflow_checks
           THEN /\ balances' = debited
                /\ last' = Call("Panic")
                /\ emitted' = <<>>
                /\ UNCHANGED total_supply
           ELSE /\ balances' = debited
                /\ total_supply' = (total_supply - value) % Modulus
                /\ emitted' = <<Transfer(from, None, value)>>
                /\ last' = Call("Ok")

InternalSteps == 2

InternalValues == {0, 1, 2}

Internal ==
    \/ \E to \in Accounts, value \in InternalValues : _mint(to, value)
    \/ \E from \in Accounts, value \in InternalValues : _burn(from, value)

InternalNext == steps < InternalSteps /\ (Message \/ Internal)

SpecInternal == Init /\ [][InternalNext]_vars

----------------------------------------------------------------------------
(* The read-only messages.  Each returns what it reads and writes nothing. *)

Returned(op, result) ==
    /\ Called
    /\ NoTally
    /\ emitted' = <<>>
    /\ last' = [op |-> op, result |-> result]
    /\ UNCHANGED <<total_supply, balances, allowances>>

query_total_supply == Returned("total_supply", total_supply)

query_balance_of(owner) == Returned("balance_of", balance_of(owner))

query_allowance(owner, spender) == Returned("allowance", allowance(owner, spender))

query_name == Returned("name", name)

query_symbol == Returned("symbol", symbol)

Query ==
    \/ query_total_supply
    \/ \E owner \in Accounts : query_balance_of(owner)
    \/ \E owner \in Accounts, spender \in Accounts : query_allowance(owner, spender)
    \/ query_name
    \/ query_symbol

QuerySteps == 2

QueryValues == {1, MaxBalance}

QueryMessage ==
    \/ \E caller \in Accounts, to \in Accounts, value \in QueryValues :
          transfer(caller, to, value)
    \/ \E caller \in Accounts, from \in Accounts, to \in Accounts, value \in QueryValues :
          transfer_from(caller, from, to, value)
    \/ \E caller \in Accounts, spender \in Accounts, value \in QueryValues :
          approve(caller, spender, value)
    \/ \E caller \in Accounts, spender \in Accounts, value \in QueryValues :
          increase_allowance(caller, spender, value)
    \/ \E caller \in Accounts, spender \in Accounts, value \in QueryValues :
          decrease_allowance(caller, spender, value)

QueryNext == steps < QuerySteps /\ (QueryMessage \/ Query)

SpecQueries == Init /\ [][QueryNext]_vars

----------------------------------------------------------------------------
(* An owner and a spender taking turns: approvals and delegated transfers  *)
(* only, of one or two units.                                               *)

HazardSteps == 4

HazardValues == {1, 2}

\* The two parties: each can own, approve, spend and receive.
HazardParties == {"alice", "bob"}

HazardMessage ==
    \/ \E caller \in HazardParties, spender \in HazardParties, value \in HazardValues :
          approve(caller, spender, value)
    \/ \E caller \in HazardParties, from \in HazardParties, to \in HazardParties,
          value \in HazardValues :
          transfer_from(caller, from, to, value)

HazardNext == steps < HazardSteps /\ HazardMessage

SpecHazard == Init /\ [][HazardNext]_vars

----------------------------------------------------------------------------
(* Reading the record of the last call *)

Errors == {"InsufficientBalance", "InsufficientAllowance"}

Pairs == Accounts \X Accounts

IsTransferCall == last.op \in {"transfer", "transfer_from"}

\* The balances the ledger should hold after value has moved from `from` to
\* `to`, starting from the storage s: debit first, then credit what is there.
Moved(s, from, to, value) ==
    LET debited == [a \in Accounts |->
                       IF a = from THEN BalanceIn(s, a) - value ELSE BalanceIn(s, a)]
    IN  [a \in Accounts |-> IF a = to THEN debited[a] + value ELSE debited[a]]

----------------------------------------------------------------------------
(* C1 *)

\* C1: conservation.  In every state reachable from the constructor by
\* transfer, transfer_from, approve, increase_allowance and
\* decrease_allowance, total_supply equals the sum of all balances.
\* The code breaks it: _transfer reads balance_to before it writes the
\* debit, so a transfer to oneself credits value on top of the old balance.
C1_Conservation == total_supply = SumOver(balances)

----------------------------------------------------------------------------
(* C2 *)

\* C2: atomicity.  A call that returns an error leaves total_supply,
\* balances and allowances exactly as they were when the call started.
\* The code breaks it: transfer_from writes the decremented allowance
\* before _transfer returns InsufficientBalance.
C2_Atomicity == last.result \in Errors => Storage = pre

----------------------------------------------------------------------------
(* C3 *)

\* C3: transfer by caller c returns InsufficientBalance exactly when
\* value > balance_of(c) and Ok otherwise, and on the error no balance has
\* changed.  The code breaks the "Ok otherwise": the credit of a
\* sufficient transfer can overflow, and the build with overflow checks
\* then panics instead of returning.
C3_TransferResult ==
    last.op = "transfer" =>
        /\ (last.result = "InsufficientBalance")
              <=> (last.value > BalanceIn(pre, last.caller))
        /\ last.value <= BalanceIn(pre, last.caller) => last.result = "Ok"
        /\ last.result = "InsufficientBalance" => balances = pre.balances

----------------------------------------------------------------------------
(* C4 *)

\* C4: a successful _transfer(from, to, value) moves exactly value: from
\* holds its prior balance minus value, to holds what it held after that
\* debit plus value, every other balance is unchanged; so a transfer to
\* oneself leaves the balance as it was.  The code breaks it for from = to.
C4_MovesExactlyValue ==
    (IsTransferCall /\ last.result = "Ok") =>
        \A a \in Accounts :
            balance_of(a) = Moved(pre, last.from, last.to, last.value)[a]
----------------------------------------------------------------------------
(* C5 *)

\* Every allowance entry but (owner, spender) is as it was before the call,
\* present or absent alike.
OtherAllowancesKept(owner, spender) ==
    \A k \in Pairs \ {<<owner, spender>>} :
        /\ (k \in DOMAIN allowances) <=> (k \in DOMAIN pre.allowances)
        /\ GetOrDefault(allowances, k) = GetOrDefault(pre.allowances, k)

\* C5: transfer_from(from, to, value) by caller s returns
\* InsufficientAllowance whenever allowance(from, s) < value; when it
\* succeeds, allowance(from, s) has gone down by exactly value, for
\* from /= to the balance of from has gone down by value and the balance of
\* to has gone up by value, and no other allowance entry has changed.
\* The code breaks the credit: once a self-transfer has inflated the
\* balances past total_supply, balance_to + value can exceed the largest
\* Balance, and the build without overflow checks returns Ok with the
\* wrapped sum.
C5_TransferFrom ==
    last.op = "transfer_from" =>
        /\ AllowanceIn(pre, last.from, last.caller) < last.value
              => last.result = "InsufficientAllowance"
        /\ last.result = "Ok" =>
              /\ allowance(last.from, last.caller)
                    = AllowanceIn(pre, last.from, last.caller) - last.value
              /\ last.from /= last.to =>
                    /\ balance_of(last.from) = BalanceIn(pre, last.from) - last.value
                    /\ balance_of(last.to) = BalanceIn(pre, last.to) + last.value
              /\ OtherAllowancesKept(last.from, last.caller)
----------------------------------------------------------------------------
(* C6 *)

\* C6: approve(spender, value) by caller o never fails and leaves
\* allowance(o, spender) at exactly value whatever it was before; every
\* other allowance entry, every balance and total_supply are unchanged.
C6_ApproveReplaces ==
    last.op = "approve" =>
        /\ last.result = "Ok"
        /\ allowance(last.owner, last.spender) = last.value
        /\ OtherAllowancesKept(last.owner, last.spender)
        /\ balances = pre.balances
        /\ total_supply = pre.total_supply

\* An approve over an allowance that was already set, to a different
\* non-zero value.
C6_Witness ==
    /\ last.op = "approve"
    /\ AllowanceIn(pre, last.owner, last.spender) > 0
    /\ last.value > 0
    /\ last.value /= AllowanceIn(pre, last.owner, last.spender)
    /\ allowance(last.owner, last.spender) = last.value

----------------------------------------------------------------------------
(* C7 *)

\* C7: straight after new(name, symbol, total_supply) called by A,
\* total_supply() is the argument, balance_of(A) is total_supply, every
\* other balance is 0, every allowance is 0, and exactly one event has been
\* emitted: Transfer {from: None, to: Some(A), value: total_supply}.
C7_Genesis ==
    last.op = "new" =>
        /\ total_supply = last.value
        /\ balance_of(last.caller) = total_supply
        /\ \A x \in Accounts \ {last.caller} : balance_of(x) = 0
        /\ \A k \in Pairs : allowance(k[1], k[2]) = 0
        /\ Len(emitted) = 1
        /\ emitted[1] = [event |-> "Transfer", from |-> None, to |-> last.caller,
                         value |-> total_supply]

\* The constructed contract, with a supply that is not zero.
C7_Witness ==
    /\ last.op = "new"
    /\ steps = 0
    /\ total_supply > 0
    /\ balance_of(last.caller) = total_supply

----------------------------------------------------------------------------
(* C8 *)

\* C8: increase_allowance(spender, value) by caller o leaves
\* allowance(o, spender) at the prior allowance plus value when the sum
\* fits the Balance width; when it does not, the call is rejected and the
\* stored allowance is unchanged, never the sum modulo 2^Width.
\* The code breaks it: line 117 adds with the plain `+`, which wraps in a
\* build without overflow checks.
C8_IncreaseChecked ==
    last.op = "increase_allowance" =>
        LET prior == AllowanceIn(pre, last.owner, last.spender)
        IN  IF prior + last.value <= MaxBalance
            THEN /\ last.result = "Ok"
                 /\ allowance(last.owner, last.spender) = prior + last.value
            ELSE /\ last.result /= "Ok"
                 /\ allowance(last.owner, last.spender) = prior

----------------------------------------------------------------------------
(* C9 *)

\* C9: decrease_allowance(spender, value) by caller o returns
\* InsufficientAllowance and changes nothing when allowance(o, spender) <
\* value; otherwise it returns Ok and leaves allowance(o, spender) at the
\* prior allowance minus value, with every other allowance entry and every
\* balance unchanged.
C9_Decrease ==
    last.op = "decrease_allowance" =>
        LET prior == AllowanceIn(pre, last.owner, last.spender)
        IN  IF prior < last.value
            THEN /\ last.result = "InsufficientAllowance"
                 /\ Storage = pre
            ELSE /\ last.result = "Ok"
                 /\ allowance(last.owner, last.spender) = prior - last.value
                 /\ OtherAllowancesKept(last.owner, last.spender)
                 /\ balances = pre.balances
                 /\ total_supply = pre.total_supply

\* A decrease that took part of a larger allowance.
C9_Witness ==
    /\ last.op = "decrease_allowance"
    /\ last.result = "Ok"
    /\ last.value > 0
    /\ allowance(last.owner, last.spender) > 0
    /\ allowance(last.owner, last.spender)
          = AllowanceIn(pre, last.owner, last.spender) - last.value

----------------------------------------------------------------------------
(* C10 *)

SpentBy(o, s) ==
    last.op = "transfer_from" /\ last.from = o /\ last.caller = s

\* C10 as the specification states it: across one operation,
\* allowances[(owner, spender)] goes down only in a transfer_from spending
\* from owner by spender or a decrease_allowance by owner, and goes up only
\* in an approve or an increase_allowance by owner.
C10_Original ==
    \A o \in Accounts, s \in Accounts :
        /\ allowance(o, s) < AllowanceIn(pre, o, s) =>
              \/ SpentBy(o, s)
              \/ last.op = "decrease_allowance" /\ last.caller = o
        /\ allowance(o, s) > AllowanceIn(pre, o, s) =>
              /\ last.op \in {"approve", "increase_allowance"}
              /\ last.caller = o

\* C10, amended: the allowance also goes down in an approve by owner whose
\* value is below the prior allowance (approve overwrites), and in an
\* increase_allowance by owner whose sum exceeds the largest Balance (the
\* unchecked sum of C8 wraps); nothing else lowers it, and it goes up only
\* in an approve or an increase_allowance by owner.
C10_Amended ==
    \A o \in Accounts, s \in Accounts :
        /\ allowance(o, s) < AllowanceIn(pre, o, s) =>
              \/ SpentBy(o, s)
              \/ last.op = "decrease_allowance" /\ last.caller = o
              \/ /\ last.op = "approve"
                 /\ last.caller = o
                 /\ last.value < AllowanceIn(pre, o, s)
              \/ /\ last.op = "increase_allowance"
                 /\ last.caller = o
                 /\ Overflows(AllowanceIn(pre, o, s), last.value)
        /\ allowance(o, s) > AllowanceIn(pre, o, s) =>
              /\ last.op \in {"approve", "increase_allowance"}
              /\ last.caller = o

\* An approve that lowered the allowance it overwrote.
C10_Witness ==
    /\ last.op = "approve"
    /\ allowance(last.owner, last.spender)
          < AllowanceIn(pre, last.owner, last.spender)
----------------------------------------------------------------------------
(* C11 *)

\* C11: every successful transfer or transfer_from emits exactly one
\* Transfer {from: Some(from), to: Some(to), value} carrying the source,
\* destination and amount of the call; a call that returns an error emits
\* nothing; and no Transfer event has both from and to absent.
C11_TransferEvents ==
    /\ (IsTransferCall /\ last.result = "Ok") =>
          emitted = <<[event |-> "Transfer", from |-> last.from, to |-> last.to,
                       value |-> last.value]>>
    /\ last.result \in Errors => emitted = <<>>
    /\ \A i \in 1 .. Len(emitted) :
          emitted[i].event = "Transfer" =>
              ~(emitted[i].from = None /\ emitted[i].to = None)

\* A delegated transfer between two different accounts that went through.
C11_Witness ==
    /\ last.op = "transfer_from"
    /\ last.result = "Ok"
    /\ last.from /= last.to
    /\ last.value > 0
    /\ Len(emitted) = 1
----------------------------------------------------------------------------
(* C12 *)

\* C12: from a constructor whose total_supply fits the Balance width, the
\* credit balance_to + value that _transfer computes never exceeds the
\* largest Balance, and no stored balance or allowance is a wrapped sum.
\* The code breaks it: for from = to the credit is computed from the
\* balance read before the debit, so balance + value can exceed the width
\* on the first call; increase_allowance adds unchecked as well (C8).
C12_NoOverflow ==
    /\ (IsTransferCall /\ last.result \in {"Ok", "Panic"}) =>
          BalanceIn(pre, last.to) + last.value <= MaxBalance
    /\ (last.op = "increase_allowance" /\ last.result = "Ok") =>
          allowance(last.owner, last.spender)
              = AllowanceIn(pre, last.owner, last.spender) + last.value
----------------------------------------------------------------------------
(* C13 *)

\* C13: a call by c lowers balance_of(a) for an account a /= c only if it
\* is transfer_from(a, to, value) and allowance(a, c) >= value held when
\* the call started; transfer, approve, increase_allowance and
\* decrease_allowance never lower the balance of anybody but their caller.
\* The code breaks it: once a self-transfer has inflated the balances past
\* total_supply, the unchecked credit to `to` wraps, and a plain transfer
\* lowers the recipient's balance.
C13_Authorization ==
    \A a \in Accounts :
        (a /= last.caller /\ balance_of(a) < BalanceIn(pre, a)) =>
            /\ last.op = "transfer_from"
            /\ last.from = a
            /\ AllowanceIn(pre, a, last.caller) >= last.value
----------------------------------------------------------------------------
(* C14 *)

----------------------------------------------------------------------------
(* C15 *)

\* C15: approve never looks at the prior allowance or at what was already
\* spent: after approve(spender, value) the allowance is value even when
\* the spender has spent an earlier approval.  So the interleaving approve
\* N, transfer_from N, approve M, transfer_from M is reachable, and moves
\* N + M although no approved value exceeded max(N, M).
C15_ApproveIgnoresSpent ==
    (last.op = "approve" /\ GetOrDefault(spent, <<last.owner, last.spender>>) > 0) =>
        allowance(last.owner, last.spender) = last.value

\* The spender has moved 3 from the owner to itself under approvals of 1
\* and 2, the last transfer_from taking the whole second approval.
C15_Witness ==
    /\ last.op = "transfer_from"
    /\ last.result = "Ok"
    /\ last.from /= last.caller
    /\ last.to = last.caller
    /\ balance_of(last.to) = 3
    /\ AllowanceIn(pre, last.from, last.caller) = last.value
    /\ GetOrDefault(spent, <<last.from, last.caller>>) = 3
    /\ GetOrDefault(granted, <<last.from, last.caller>>) = 3
----------------------------------------------------------------------------
(* C16 *)

Conserved(s) == s.total_supply = SumOver(s.balances)

\* C16: _burn(from, value) returns InsufficientBalance with nothing changed
\* when value > balances[from]; otherwise it takes exactly value off
\* balances[from] and off total_supply, emits Transfer {from: Some(from),
\* to: None, value}, and keeps total_supply equal to the sum of balances.
\* The code breaks it: after a self-transfer has inflated a balance past
\* total_supply, value can pass the balance check and still exceed
\* total_supply, and `total_supply -= value` underflows.
C16_Burn ==
    last.op = "_burn" =>
        IF last.value > BalanceIn(pre, last.from)
        THEN /\ last.result = "InsufficientBalance"
             /\ Storage = pre
             /\ emitted = <<>>
        ELSE /\ last.result = "Ok"
             /\ balance_of(last.from) = BalanceIn(pre, last.from) - last.value
             /\ total_supply = pre.total_supply - last.value
             /\ emitted = <<[event |-> "Transfer", from |-> last.from, to |-> None,
                             value |-> last.value]>>
             /\ Conserved(pre) => Conserved(Storage)

----------------------------------------------------------------------------
(* C17 *)

\* C17: _mint(to, value) adds exactly value to balances[to] and to
\* total_supply, emits Transfer {from: None, to: Some(to), value} and keeps
\* total_supply equal to the sum of balances; when total_supply + value
\* does not fit the Balance width the call is rejected and neither
\* balances[to] nor total_supply is changed or wrapped.
\* The code breaks it: both sums are plain `+`.
C17_Mint ==
    last.op = "_mint" =>
        IF pre.total_supply + last.value <= MaxBalance
        THEN /\ last.result = "Ok"
             /\ balance_of(last.to) = BalanceIn(pre, last.to) + last.value
             /\ total_supply = pre.total_supply + last.value
             /\ emitted = <<[event |-> "Transfer", from |-> None, to |-> last.to,
                             value |-> last.value]>>
             /\ Conserved(pre) => Conserved(Storage)
        ELSE /\ last.result /= "Ok"
             /\ balances = pre.balances
             /\ total_supply = pre.total_supply
----------------------------------------------------------------------------
(* C18 *)

\* C18: after any sequence of transfer, transfer_from, approve,
\* increase_allowance and decrease_allowance calls, successful or not,
\* total_supply() is the value that was passed to new.
C18_FixedSupply == total_supply = initial_supply

\* Two messages in, the last one having changed the storage.
C18_Witness ==
    /\ steps >= 2
    /\ Storage /= pre
    /\ IsTransferCall
    /\ last.result = "Ok"
    /\ last.value > 0
    /\ total_supply > 0
----------------------------------------------------------------------------
(* C19 *)

Queries == {"total_supply", "balance_of", "allowance", "name", "symbol"}

\* Every balance entry outside `touched` is as it was before the call,
\* present or absent alike.
OtherBalancesKept(touched) ==
    \A a \in Accounts \ touched :
        /\ (a \in DOMAIN balances) <=> (a \in DOMAIN pre.balances)
        /\ balance_of(a) = BalanceIn(pre, a)

\* C19: approve, increase_allowance and decrease_allowance change no
\* balance; transfer changes no allowance entry; transfer_from changes at
\* most the allowance entry (from, caller) and the balances of from and to;
\* total_supply, balance_of, allowance, name and symbol change nothing.
C19_Frames ==
    /\ last.op \in {"approve", "increase_allowance", "decrease_allowance"} =>
          balances = pre.balances
    /\ last.op = "transfer" => allowances = pre.allowances
    /\ last.op = "transfer_from" =>
          /\ OtherAllowancesKept(last.from, last.caller)
          /\ OtherBalancesKept({last.from, last.to})
    /\ last.op \in Queries =>
          /\ Storage = pre
          /\ name = "Ink Test Token"
          /\ symbol = "ITT"

\* allowance(owner, spender) read back after an approval.
C19_Witness ==
    /\ last.op = "allowance"
    /\ last.result > 0
    /\ Storage = pre
----------------------------------------------------------------------------
(* C20 *)

HasApproval ==
    \E i \in 1 .. Len(emitted) : emitted[i].event = "Approval"

\* C20: approve, and only approve, emits Approval: each approve emits
\* exactly one Approval {owner: caller, spender, value}, while
\* increase_allowance, decrease_allowance and transfer_from change an
\* allowance without emitting one, so the last Approval of a pair need not
\* show the allowance the pair has now.
C20_ApprovalEvents ==
    /\ last.op = "approve" =>
          emitted = <<[event |-> "Approval", owner |-> last.caller,
                       spender |-> last.spender, value |-> last.value]>>
    /\ last.op /= "approve" => ~HasApproval

\* An allowance that was already set has been raised, and nothing emitted.
C20_Witness ==
    /\ last.op = "increase_allowance"
    /\ last.result = "Ok"
    /\ AllowanceIn(pre, last.owner, last.spender) > 0
    /\ allowance(last.owner, last.spender) > AllowanceIn(pre, last.owner, last.spender)
    /\ emitted = <<>>

====
